---- MODULE Spec2Model ----
(***************************************************************************)
(* A model of nstore::executor::CreateExecutor::Execute                    *)
(* (src/executor/create_executor.cpp): the CREATE DATABASE, CREATE TABLE   *)
(* and CREATE INDEX paths, run by several threads against one catalog.     *)
(*                                                                         *)
(* Each thread makes one call of Execute.  A thread's pc is its position   *)
(* in the function; one action is one stretch of the function between two  *)
(* accesses to shared catalog state (the registry, the default database,   *)
(* a registered table) or to a lock.                                       *)
(*                                                                         *)
(* The catalog classes (Catalog, Database, Table, Index, Constraint) are   *)
(* not part of the source at hand: their lookup / add / lock contract is   *)
(* taken from the specification (a container is a vector searched by name, *)
(* an add is a find followed by a push_back, a lock is a plain mutex).     *)
(***************************************************************************)
EXTENDS Integers, Sequences, FiniteSets, TLC

\* Number of threads that exist (each makes at most one call of Execute).
NThreads == 3

\* Number of threads that call Execute in the CREATE TABLE and CREATE INDEX
\* specifications; the remaining threads make no call there.
NCallers == 2

Threads == 1 .. NThreads

Min(a, b) == IF a < b THEN a ELSE b

Callers == 1 .. Min(NCallers, NThreads)

VARIABLES
    databases,    \* the Catalog Registry: the vector of Database objects
    catalogLock,  \* holder of the Catalog Registry mutex, 0 when free
    tables,       \* the vector of Table objects of the default Database
    dbLock,       \* holder of the default Database's mutex, 0 when free
    tableLock,    \* per position in tables: holder of that Table's mutex
    stmt,         \* per thread: the statement passed to Execute
    fault,        \* per thread: the container operation that rejects, if any
    pc,           \* per thread: position in Execute
    local,        \* per thread: the local variables of Execute
    result        \* per thread: the value returned by Execute (when pc = "done")

shared == <<databases, catalogLock, tables, dbLock, tableLock>>
vars == <<databases, catalogLock, tables, dbLock, tableLock,
          stmt, fault, pc, local, result>>

----------------------------------------------------------------------------
(* Pointers.  A pointer to a list of the statement is the empty set        *)
(* (nullptr) or the singleton of the list.  A pointer to a Database or a   *)
(* Table is its position in the owning vector, 0 for nullptr.              *)

Null == {}
Ptr(x) == {x}
Deref(p) == CHOOSE x \in p : TRUE

Range(s) == {s[k] : k \in 1 .. Len(s)}

\* std::find(columns.begin(), columns.end(), key) != columns.end()
Find(columns, key) == key \in Range(columns)

----------------------------------------------------------------------------
(* Names used by the statements.                                           *)

DEFAULT_DB_NAME == "default"

\* Database names of the CREATE DATABASE statements: the registered default
\* database and one that is not registered at the start.
DatabaseNames == {DEFAULT_DB_NAME, "n1"}

DatabaseStmts == {[type |-> "kDatabase", name |-> n] : n \in DatabaseNames}

----------------------------------------------------------------------------
(* The catalog contract (catalog/catalog.h, catalog/database.h,            *)
(* catalog/table.h).  A lookup reads its container in one step; an add is  *)
(* a search of the container followed by an append, two steps that only    *)
(* the container's lock keeps together.                                    *)

\* Position of the first object called name in a vector of named objects, 0
\* (nullptr) when there is none.
Lookup(vec, name) ==
    IF \E k \in 1 .. Len(vec) : vec[k].name = name
    THEN CHOOSE k \in 1 .. Len(vec) :
             /\ vec[k].name = name
             /\ \A j \in 1 .. k - 1 : vec[j].name # name
    ELSE 0

\* Catalog::GetDatabase(name)
GetDatabase(name) == Lookup(databases, name)

\* Database::GetTable(name), on the default database
GetTable(name) == Lookup(tables, name)

\* Lock() of a mutex by thread t: blocks until the mutex is free.
CanLock(lock) == lock = 0

\* Unlock() of a mutex by thread t: the values the mutex can have afterwards.
\* Unlocking a mutex the caller does not hold is undefined: the mutex is
\* released on behalf of its holder, or is left as it is.
Unlock(lock, t) == IF lock = t THEN {0} ELSE {lock, 0}

----------------------------------------------------------------------------
(* Local variables of one call of Execute.                                 *)

NoTable ==
    [id |-> 0, name |-> "", columns |-> <<>>, constraints |-> <<>>,
     indexes |-> <<>>, physical_table |-> Null]

NoIndex == [name |-> "", unique |-> FALSE, columns |-> <<>>, physical_index |-> Null]

LocalInit ==
    [columns |-> <<>>,         \* std::vector<std::string> columns (line 50)
     table |-> NoTable,        \* the Table built by CREATE TABLE (line 122)
     physical_columns |-> <<>>,
     offset |-> 0, constraint_id |-> 0, index_id |-> 0,
     status |-> FALSE,
     database |-> [id |-> 0, name |-> ""],   \* the Database built (line 293)
     target |-> 0,             \* the Table* of CREATE INDEX (line 325)
     key_attrs |-> <<>>,       \* the key offsets (line 336)
     key_schema |-> <<>>,      \* the projected Schema (line 357)
     physical_index |-> Null,  \* the physical index (line 365)
     index_at |-> 0,           \* where the registered Index is in its table
     index |-> NoIndex,        \* the Index built by CREATE INDEX (line 368)
     created |-> <<>>,         \* the new expressions executed, in order
     deleted |-> <<>>]         \* the delete statements executed, in order

Return(t, value) ==
    /\ pc' = [pc EXCEPT ![t] = "done"]
    /\ result' = [result EXCEPT ![t] = value]

Goto(t, label) ==
    /\ pc' = [pc EXCEPT ![t] = label]
    /\ UNCHANGED result

----------------------------------------------------------------------------
(* CREATE DATABASE (lines 284-312).                                        *)

\* Lines 286-293: look the name up; when it is registered go to the
\* already-exists path, otherwise construct the Database.
D_GetDatabase(t) ==
    /\ pc[t] = "d_get"
    /\ IF GetDatabase(stmt[t].name) # 0
       THEN /\ Goto(t, "d_exists")
            /\ UNCHANGED local
       ELSE /\ Goto(t, "d_lock")
            /\ local' = [local EXCEPT
                   ![t].database = [id |-> t, name |-> stmt[t].name],
                   ![t].created = Append(@, "database")]
    /\ UNCHANGED <<shared, stmt, fault>>

\* Lines 288-290: the already-exists path unlocks the registry and returns
\* false.
D_Exists(t) ==
    /\ pc[t] = "d_exists"
    /\ catalogLock' \in Unlock(catalogLock, t)
    /\ Return(t, FALSE)
    /\ UNCHANGED <<databases, tables, dbLock, tableLock, stmt, fault, local>>

\* Line 297: lock the registry.
D_Lock(t) ==
    /\ pc[t] = "d_lock"
    /\ CanLock(catalogLock)
    /\ catalogLock' = t
    /\ Goto(t, "d_add")
    /\ UNCHANGED <<databases, tables, dbLock, tableLock, stmt, fault, local>>

\* Line 299, first half of AddDatabase: search the registry for the name.
D_AddDatabaseFind(t) ==
    /\ pc[t] = "d_add"
    /\ LET status == GetDatabase(local[t].database.name) = 0
       IN  /\ local' = [local EXCEPT ![t].status = status]
           /\ Goto(t, IF status THEN "d_push" ELSE "d_fail")
    /\ UNCHANGED <<shared, stmt, fault>>

\* Line 299, second half of AddDatabase: append the Database.
D_AddDatabasePush(t) ==
    /\ pc[t] = "d_push"
    /\ databases' = Append(databases, local[t].database)
    /\ Goto(t, "d_unlock")
    /\ UNCHANGED <<catalogLock, tables, dbLock, tableLock, stmt, fault, local>>

\* Lines 300-305: AddDatabase failed: delete the Database, unlock, return
\* false.
D_Fail(t) ==
    /\ pc[t] = "d_fail"
    /\ local' = [local EXCEPT ![t].deleted = Append(@, "database")]
    /\ catalogLock' \in Unlock(catalogLock, t)
    /\ Return(t, FALSE)
    /\ UNCHANGED <<databases, tables, dbLock, tableLock, stmt, fault>>

\* Lines 307-311: unlock and return true.
D_Unlock(t) ==
    /\ pc[t] = "d_unlock"
    /\ catalogLock' \in Unlock(catalogLock, t)
    /\ Return(t, TRUE)
    /\ UNCHANGED <<databases, tables, dbLock, tableLock, stmt, fault, local>>

NextDatabase ==
    \E t \in Threads :
        \/ D_GetDatabase(t)
        \/ D_Exists(t)
        \/ D_Lock(t)
        \/ D_AddDatabaseFind(t)
        \/ D_AddDatabasePush(t)
        \/ D_Fail(t)
        \/ D_Unlock(t)

----------------------------------------------------------------------------
(* CREATE TABLE: the statement (parser/statement_create.h).                *)
(* A column definition is a normal column, a PRIMARY marker or a FOREIGN   *)
(* marker.  The value type and the width of a normal column take no part   *)
(* in the control flow of Execute and are left out.                        *)

Normal(name) ==
    [type |-> "NORMAL", name |-> name, unique |-> FALSE, primary_key |-> Null,
     foreign_key_source |-> Null, foreign_key_sink |-> Null]

Primary(keys, unique) ==
    [type |-> "PRIMARY", name |-> "", unique |-> unique, primary_key |-> keys,
     foreign_key_source |-> Null, foreign_key_sink |-> Null]

\* name is the sink table of a FOREIGN marker (lines 83, 193).
Foreign(source, name, sink) ==
    [type |-> "FOREIGN", name |-> name, unique |-> FALSE, primary_key |-> Null,
     foreign_key_source |-> source, foreign_key_sink |-> sink]

CreateTable(name, if_not_exists, columns) ==
    [type |-> "kTable", name |-> name, if_not_exists |-> if_not_exists,
     columns |-> columns]

----------------------------------------------------------------------------
(* The Table contract (catalog/table.h).  A pointer to a Column is the     *)
(* empty set or the singleton of the Column, which never changes once      *)
(* constructed.                                                            *)

\* Table::GetColumn(name)
GetColumn(table, name) ==
    IF Lookup(table.columns, name) = 0 THEN Null
    ELSE Ptr(table.columns[Lookup(table.columns, name)])

\* Whether a container operation named op of thread t rejects on its own
\* account (a registration failure other than a name collision).
Rejects(t, op) == fault[t] = op

\* Table::AddConstraint(constraint): whether it succeeds.
AddConstraint(t, table, constraint) ==
    /\ ~Rejects(t, "AddConstraint")
    /\ Lookup(table.constraints, constraint.name) = 0

\* Table::AddIndex(index): whether it succeeds.
AddIndex(t, table, index) ==
    /\ ~Rejects(t, "AddIndex")
    /\ Lookup(table.indexes, index.name) = 0

\* Table::AddColumn(column): whether it succeeds.
AddColumn(t, table, column) ==
    /\ ~Rejects(t, "AddColumn")
    /\ Lookup(table.columns, column.name) = 0

\* Database::AddTable(table), first half: whether the search lets it in.
AddTable(t, table) ==
    /\ ~Rejects(t, "AddTable")
    /\ GetTable(table.name) = 0

----------------------------------------------------------------------------
(* CREATE TABLE, pass 1: validation (lines 50-110).                        *)

\* KeyNotInTable with the comparison of std::find's result turned round.
KeyNotInTable_Found(keys, columns) ==
    /\ keys # Null
    /\ \E key \in Range(Deref(keys)) : Find(columns, key)

\* Lines 60-64 and 72-76: some key is not among the names collected so far.
KeyNotInTable(keys, columns) ==
    /\ keys # Null
    /\ \E key \in Range(Deref(keys)) : ~Find(columns, key)

\* Lines 80-94: for some sink key the sink table does not exist or has no
\* such column.
SinkNotInForeignTable(col) ==
    /\ col.foreign_key_sink # Null
    /\ \E key \in Range(Deref(col.foreign_key_sink)) :
           \/ GetTable(col.name) = 0
           \/ GetColumn(tables[GetTable(col.name)], key) = Null

\* ValidationFails without the duplicate-name check of lines 101-104.
ValidationFails_NoDuplicateCheck(col, columns) ==
    CASE col.type = "PRIMARY" -> KeyNotInTable(col.primary_key, columns)
      [] col.type = "FOREIGN" ->
             \/ KeyNotInTable(col.foreign_key_source, columns)
             \/ SinkNotInForeignTable(col)
      [] OTHER -> FALSE

\* Whether pass 1 returns false at column definition col, columns being the
\* normal column names seen before it.
ValidationFails(col, columns) ==
    CASE col.type = "PRIMARY" -> KeyNotInTable(col.primary_key, columns)
      [] col.type = "FOREIGN" ->
             \/ KeyNotInTable(col.foreign_key_source, columns)
             \/ SinkNotInForeignTable(col)
      [] OTHER -> Find(columns, col.name)

\* Lines 51-110, the validation loop from position i on: whether it runs to
\* the end, and the names collected.
RECURSIVE Validate(_, _, _)
Validate(cols, i, columns) ==
    IF i > Len(cols) THEN [ok |-> TRUE, columns |-> columns]
    ELSE IF ValidationFails(cols[i], columns)
         THEN [ok |-> FALSE, columns |-> columns]
         ELSE Validate(cols, i + 1,
                       IF cols[i].type = "NORMAL"
                       THEN Append(columns, cols[i].name) ELSE columns)

\* Lines 50-110: pass 1.  Its only reads of shared state are the lookups of
\* sink tables; registered tables are never removed and their columns never
\* change, so the loop is taken as one step.
T_Validate(t) ==
    /\ pc[t] = "t_validate"
    /\ LET r == Validate(stmt[t].columns, 1, <<>>)
       IN  /\ local' = [local EXCEPT ![t].columns = r.columns]
           /\ IF r.ok THEN Goto(t, "t_setup") ELSE Return(t, FALSE)
    /\ UNCHANGED <<shared, stmt, fault>>

----------------------------------------------------------------------------
(* CREATE TABLE, pass 2: construction (lines 116-258).                     *)

\* Lines 116-130: the existence guard, then the new Table.
T_Setup(t) ==
    /\ pc[t] = "t_setup"
    /\ IF GetTable(stmt[t].name) # 0 /\ stmt[t].if_not_exists
       THEN /\ Return(t, FALSE)
            /\ UNCHANGED local
       ELSE /\ Goto(t, "t_construct")
            /\ local' = [local EXCEPT
                   ![t].table = [NoTable EXCEPT !.id = t, !.name = stmt[t].name],
                   ![t].created = Append(@, "table")]
    /\ UNCHANGED <<shared, stmt, fault>>

\* Lines 147-148, 195-198: the Column pointers of a key list.
ResolveColumns(table, keys) ==
    [k \in 1 .. Len(keys) |-> GetColumn(table, keys[k])]

\* CreatePrimary with index_id not incremented at line 143.
CreatePrimary_SameIndexName(t, col, l) ==
    LET constraint_name == "PK_" \o ToString(l.constraint_id)
        index_name == "INDEX_" \o ToString(l.index_id)
        columns == ResolveColumns(l.table, Deref(col.primary_key))
        index == [name |-> index_name, unique |-> col.unique,
                  columns |-> columns, physical_index |-> Null]
        constraint == [name |-> constraint_name, type |-> "PRIMARY",
                       index |-> Ptr(index_name), foreign_table |-> 0,
                       columns |-> columns, sink_columns |-> <<>>]
        l1 == [l EXCEPT !.constraint_id = @ + 1,
                        !.created = @ \o <<"index " \o index_name,
                                           "constraint " \o constraint_name>>]
        rollback == <<"index " \o index_name, "constraint " \o constraint_name,
                      "table">>
    IN  IF ~AddConstraint(t, l.table, constraint)
        THEN [ok |-> FALSE, l |-> [l1 EXCEPT !.deleted = @ \o rollback]]
        ELSE LET l2 == [l1 EXCEPT !.table.constraints = Append(@, constraint)]
             IN  IF ~AddIndex(t, l2.table, index)
                 THEN [ok |-> FALSE, l |-> [l2 EXCEPT !.deleted = @ \o rollback]]
                 ELSE [ok |-> TRUE,
                       l |-> [l2 EXCEPT !.table.indexes = Append(@, index)]]

\* Lines 142-178: a PRIMARY marker.  The record is the new values of the
\* locals and whether the loop goes on.
CreatePrimary(t, col, l) ==
    LET constraint_name == "PK_" \o ToString(l.constraint_id)
        index_name == "INDEX_" \o ToString(l.index_id)
        columns == ResolveColumns(l.table, Deref(col.primary_key))
        index == [name |-> index_name, unique |-> col.unique,
                  columns |-> columns, physical_index |-> Null]
        constraint == [name |-> constraint_name, type |-> "PRIMARY",
                       index |-> Ptr(index_name), foreign_table |-> 0,
                       columns |-> columns, sink_columns |-> <<>>]
        l1 == [l EXCEPT !.constraint_id = @ + 1, !.index_id = @ + 1,
                        !.created = @ \o <<"index " \o index_name,
                                           "constraint " \o constraint_name>>]
        rollback == <<"index " \o index_name, "constraint " \o constraint_name,
                      "table">>
    IN  IF ~AddConstraint(t, l.table, constraint)
        THEN [ok |-> FALSE, l |-> [l1 EXCEPT !.deleted = @ \o rollback]]
        ELSE LET l2 == [l1 EXCEPT !.table.constraints = Append(@, constraint)]
             IN  IF ~AddIndex(t, l2.table, index)
                 THEN [ok |-> FALSE, l |-> [l2 EXCEPT !.deleted = @ \o rollback]]
                 ELSE [ok |-> TRUE,
                       l |-> [l2 EXCEPT !.table.indexes = Append(@, index)]]

\* Lines 186-213: a FOREIGN marker.
CreateForeign(t, col, l) ==
    LET constraint_name == "FK_" \o ToString(l.constraint_id)
        foreign_table == GetTable(col.name)
        source_columns == ResolveColumns(l.table, Deref(col.foreign_key_source))
        sink_columns ==
            [k \in 1 .. Len(Deref(col.foreign_key_sink)) |->
                GetColumn(tables[foreign_table], Deref(col.foreign_key_sink)[k])]
        constraint == [name |-> constraint_name, type |-> "FOREIGN",
                       index |-> Null, foreign_table |-> foreign_table,
                       columns |-> source_columns,
                       sink_columns |-> sink_columns]
        l1 == [l EXCEPT !.constraint_id = @ + 1,
                        !.created = Append(@, "constraint " \o constraint_name)]
    IN  IF ~AddConstraint(t, l.table, constraint)
        THEN [ok |-> FALSE,
              l |-> [l1 EXCEPT !.deleted =
                         @ \o <<"constraint " \o constraint_name, "table">>]]
        ELSE [ok |-> TRUE,
              l |-> [l1 EXCEPT !.table.constraints = Append(@, constraint)]]

\* CreateColumn with the offset incremented before it is used (++offset at
\* line 231).
CreateColumn_PreIncrement(t, col, l) ==
    LET column == [name |-> col.name, offset |-> l.offset + 1]
        l1 == [l EXCEPT !.offset = @ + 1,
                        !.physical_columns = Append(@, col.name),
                        !.created = Append(@, "column " \o col.name)]
    IN  IF ~AddColumn(t, l.table, column)
        THEN [ok |-> FALSE, l |-> [l1 EXCEPT !.deleted = Append(@, "table")]]
        ELSE [ok |-> TRUE,
              l |-> [l1 EXCEPT !.table.columns = Append(@, column)]]

\* Lines 221-247: a normal column.
CreateColumn(t, col, l) ==
    LET column == [name |-> col.name, offset |-> l.offset]
        l1 == [l EXCEPT !.offset = @ + 1,
                        !.physical_columns = Append(@, col.name),
                        !.created = Append(@, "column " \o col.name)]
    IN  IF ~AddColumn(t, l.table, column)
        THEN [ok |-> FALSE, l |-> [l1 EXCEPT !.deleted = Append(@, "table")]]
        ELSE [ok |-> TRUE,
              l |-> [l1 EXCEPT !.table.columns = Append(@, column)]]

\* The list pointers that pass 2 dereferences without a check (lines 147,
\* 195, 197).
DereferencesNull(col) ==
    CASE col.type = "PRIMARY" -> col.primary_key = Null
      [] col.type = "FOREIGN" ->
             col.foreign_key_source = Null \/ col.foreign_key_sink = Null
      [] OTHER -> FALSE

\* Table::~Table() releases what the Table owns: the constraints and the
\* indexes it accepted.  Whether the delete statements executed release an
\* object twice: one of them names an object that the deleted Table owns.
ReleasedTwice(l) ==
    /\ \E k \in 1 .. Len(l.deleted) : l.deleted[k] = "table"
    /\ \E k \in 1 .. Len(l.deleted) :
           \/ \E j \in 1 .. Len(l.table.constraints) :
                  l.deleted[k] = "constraint " \o l.table.constraints[j].name
           \/ \E j \in 1 .. Len(l.table.indexes) :
                  l.deleted[k] = "index " \o l.table.indexes[j].name

\* Lines 132-250, the construction loop from position i on: how it ends
\* ("end": it runs to the end; "false": Execute returns false; "fault": it
\* dereferences a null list pointer, which is undefined, and the thread
\* faults), and the locals then.  r is what the branch taken at position i
\* gives: whether the loop goes on, and the locals after it.
RECURSIVE Construct(_, _, _, _)
Construct(t, cols, i, l) ==
    IF i > Len(cols) THEN [outcome |-> "end", l |-> l]
    ELSE IF DereferencesNull(cols[i]) THEN [outcome |-> "fault", l |-> l]
    ELSE CHOOSE end \in
             {IF r.ok THEN Construct(t, cols, i + 1, r.l)
              ELSE [outcome |-> "false", l |-> r.l] :
                 r \in {CASE cols[i].type = "PRIMARY" -> CreatePrimary(t, cols[i], l)
                          [] cols[i].type = "FOREIGN" -> CreateForeign(t, cols[i], l)
                          [] OTHER -> CreateColumn(t, cols[i], l)}} : TRUE

\* Lines 256-258: the Schema and the physical table.
SetPhysicalTable(l) ==
    [l EXCEPT !.table.physical_table = Ptr([schema |-> l.physical_columns]),
              !.created = @ \o <<"schema", "physical_table">>]

\* Lines 132-258: pass 2 and the physical table.  Everything built is
\* reachable from this thread alone; the only reads of shared state are the
\* lookups of sink tables (line 193).  Releasing an object twice is
\* undefined: Execute returns false all the same, or the thread faults.
T_Construct(t) ==
    /\ pc[t] = "t_construct"
    /\ LET r == Construct(t, stmt[t].columns, 1, local[t])
       IN  CASE r.outcome = "end" ->
                    /\ local' = [local EXCEPT ![t] = SetPhysicalTable(r.l)]
                    /\ Goto(t, "t_lock")
             [] r.outcome = "false" ->
                    /\ local' = [local EXCEPT ![t] = r.l]
                    /\ \/ Return(t, FALSE)
                       \/ ReleasedTwice(r.l) /\ Goto(t, "fault")
             [] OTHER ->
                    /\ local' = [local EXCEPT ![t] = r.l]
                    /\ Goto(t, "fault")
    /\ UNCHANGED <<shared, stmt, fault>>

----------------------------------------------------------------------------
(* CREATE TABLE: registration (lines 260-276).                             *)

\* T_Lock without the call of Lock at line 262.
T_Lock_NoLock(t) ==
    /\ pc[t] = "t_lock"
    /\ Goto(t, "t_add")
    /\ UNCHANGED <<shared, stmt, fault, local>>

\* Line 262: lock the database.
T_Lock(t) ==
    /\ pc[t] = "t_lock"
    /\ CanLock(dbLock)
    /\ dbLock' = t
    /\ Goto(t, "t_add")
    /\ UNCHANGED <<databases, catalogLock, tables, tableLock, stmt, fault, local>>

\* T_AddTableFind with the status of AddTable not looked at (line 265).
T_AddTableFind_Unchecked(t) ==
    /\ pc[t] = "t_add"
    /\ local' = [local EXCEPT ![t].status = AddTable(t, local[t].table)]
    /\ Goto(t, "t_push")
    /\ UNCHANGED <<shared, stmt, fault>>

\* Line 264, first half of AddTable: search the database for the name.
T_AddTableFind(t) ==
    /\ pc[t] = "t_add"
    /\ LET status == AddTable(t, local[t].table)
       IN  /\ local' = [local EXCEPT ![t].status = status]
           /\ Goto(t, IF status THEN "t_push" ELSE "t_fail")
    /\ UNCHANGED <<shared, stmt, fault>>

\* Line 264, second half of AddTable: append the Table, which comes with a
\* free mutex of its own.
T_AddTablePush(t) ==
    /\ pc[t] = "t_push"
    /\ tables' = Append(tables, local[t].table)
    /\ tableLock' = Append(tableLock, 0)
    /\ Goto(t, "t_unlock")
    /\ UNCHANGED <<databases, catalogLock, dbLock, stmt, fault, local>>

\* Lines 265-270: AddTable failed: delete the Table, unlock, return false.
T_Fail(t) ==
    /\ pc[t] = "t_fail"
    /\ local' = [local EXCEPT ![t].deleted = Append(@, "table")]
    /\ dbLock' \in Unlock(dbLock, t)
    /\ Return(t, FALSE)
    /\ UNCHANGED <<databases, catalogLock, tables, tableLock, stmt, fault>>

\* T_Unlock with line 276 returning false.
T_Unlock_ReturnsFalse(t) ==
    /\ pc[t] = "t_unlock"
    /\ dbLock' \in Unlock(dbLock, t)
    /\ Return(t, FALSE)
    /\ UNCHANGED <<databases, catalogLock, tables, tableLock, stmt, fault, local>>

\* Lines 272-276: unlock and return true.
T_Unlock(t) ==
    /\ pc[t] = "t_unlock"
    /\ dbLock' \in Unlock(dbLock, t)
    /\ Return(t, TRUE)
    /\ UNCHANGED <<databases, catalogLock, tables, tableLock, stmt, fault, local>>

NextTable ==
    \E t \in Threads :
        \/ T_Validate(t)
        \/ T_Setup(t)
        \/ T_Construct(t)
        \/ T_Lock(t)
        \/ T_AddTableFind(t)
        \/ T_AddTablePush(t)
        \/ T_Fail(t)
        \/ T_Unlock(t)

----------------------------------------------------------------------------
(* CREATE INDEX (lines 319-394).                                           *)

CreateIndex(name, table_name, index_attrs, unique) ==
    [type |-> "kIndex", name |-> name, table_name |-> table_name,
     index_attrs |-> index_attrs, unique |-> unique]

\* Lines 340-350: whether every key names a column of the table.
AttrsInTable(table, attrs) ==
    \A k \in 1 .. Len(attrs) : GetColumn(table, attrs[k]) # Null

\* KeyAttrs with the offsets sorted after the loop of lines 340-350.
KeyAttrs_Sorted(table, attrs) ==
    SortSeq([k \in 1 .. Len(attrs) |-> Deref(GetColumn(table, attrs[k])).offset],
            LAMBDA a, b : a < b)

\* Line 347: the offsets of the key columns, in the order of the keys.
KeyAttrs(table, attrs) ==
    [k \in 1 .. Len(attrs) |-> Deref(GetColumn(table, attrs[k])).offset]

\* Schema::CopySchema(schema, set): the columns of schema at the offsets of
\* set, in the order of set (line 357).
CopySchema(schema, set) == [k \in 1 .. Len(set) |-> schema[set[k] + 1]]

\* Lines 325-371: validation, key resolution and construction of the Index.
\* The Table pointer is read from the database once; the columns and the
\* schema of a registered table never change.
I_Validate(t) ==
    /\ pc[t] = "i_validate"
    /\ LET table == GetTable(stmt[t].table_name)
           attrs == Deref(stmt[t].index_attrs)
       IN  IF table = 0 \/ stmt[t].index_attrs = Null
              \/ ~AttrsInTable(tables[table], attrs)
           THEN /\ Return(t, FALSE)
                /\ UNCHANGED local
           ELSE LET key_attrs == KeyAttrs(tables[table], attrs)
                    key_columns == ResolveColumns(tables[table], attrs)
                    tuple_schema == Deref(tables[table].physical_table).schema
                IN  /\ local' = [local EXCEPT
                           ![t].target = table,
                           ![t].key_attrs = key_attrs,
                           ![t].key_schema = CopySchema(tuple_schema, key_attrs),
                           ![t].physical_index = Null,
                           ![t].index = [name |-> stmt[t].name,
                                         unique |-> stmt[t].unique,
                                         columns |-> key_columns,
                                         physical_index |-> Null],
                           ![t].created = Append(@, "index " \o stmt[t].name)]
                    /\ Goto(t, "i_lock")
    /\ UNCHANGED <<shared, stmt, fault>>

\* I_Lock without the call of Lock at line 375.
I_Lock_NoLock(t) ==
    /\ pc[t] = "i_lock"
    /\ Goto(t, "i_add")
    /\ UNCHANGED <<shared, stmt, fault, local>>

\* Line 375: lock the table.
I_Lock(t) ==
    /\ pc[t] = "i_lock"
    /\ CanLock(tableLock[local[t].target])
    /\ tableLock' = [tableLock EXCEPT ![local[t].target] = t]
    /\ Goto(t, "i_add")
    /\ UNCHANGED <<databases, catalogLock, tables, dbLock, stmt, fault, local>>

\* Line 377, first half of AddIndex: search the table's indexes for the name.
I_AddIndexFind(t) ==
    /\ pc[t] = "i_add"
    /\ LET status == AddIndex(t, tables[local[t].target], local[t].index)
       IN  /\ local' = [local EXCEPT ![t].status = status]
           /\ Goto(t, IF status THEN "i_push" ELSE "i_fail")
    /\ UNCHANGED <<shared, stmt, fault>>

\* Line 377, second half of AddIndex: append the Index to the table's
\* indexes; index_at is where the Index object then is.
I_AddIndexPush(t) ==
    /\ pc[t] = "i_push"
    /\ tables' = [tables EXCEPT ![local[t].target].indexes =
                      Append(@, local[t].index)]
    /\ local' = [local EXCEPT ![t].index_at =
                     Len(tables[local[t].target].indexes) + 1]
    /\ Goto(t, "i_unlock")
    /\ UNCHANGED <<databases, catalogLock, dbLock, tableLock, stmt, fault>>

\* Lines 378-384: AddIndex failed: delete the physical index (a null
\* pointer) and the Index, unlock, return false.
I_Fail(t) ==
    /\ pc[t] = "i_fail"
    /\ local' = [local EXCEPT ![t].deleted =
                     @ \o <<"physical_index", "index " \o local[t].index.name>>]
    /\ \E lock \in Unlock(tableLock[local[t].target], t) :
           tableLock' = [tableLock EXCEPT ![local[t].target] = lock]
    /\ Return(t, FALSE)
    /\ UNCHANGED <<databases, catalogLock, tables, dbLock, stmt, fault>>

\* Line 386: unlock the table.
I_Unlock(t) ==
    /\ pc[t] = "i_unlock"
    /\ \E lock \in Unlock(tableLock[local[t].target], t) :
           tableLock' = [tableLock EXCEPT ![local[t].target] = lock]
    /\ Goto(t, "i_set")
    /\ UNCHANGED <<databases, catalogLock, tables, dbLock, stmt, fault, local>>

\* Lines 389-393: attach the physical index to the registered Index and
\* return true.
I_SetPhysicalIndex(t) ==
    /\ pc[t] = "i_set"
    /\ tables' = [tables EXCEPT
           ![local[t].target].indexes[local[t].index_at].physical_index =
               local[t].physical_index]
    /\ Return(t, TRUE)
    /\ UNCHANGED <<databases, catalogLock, dbLock, tableLock, stmt, fault, local>>

NextIndex ==
    \E t \in Threads :
        \/ I_Validate(t)
        \/ I_Lock(t)
        \/ I_AddIndexFind(t)
        \/ I_AddIndexPush(t)
        \/ I_Fail(t)
        \/ I_Unlock(t)
        \/ I_SetPhysicalIndex(t)

----------------------------------------------------------------------------
(* The catalog at the start: the default database is registered (line 35   *)
(* asserts it).                                                            *)

DefaultDatabase == [id |-> 0, name |-> DEFAULT_DB_NAME]

\* Line 38: the switch on the statement's type.
Entry(s) ==
    CASE s.type = "kDatabase" -> "d_get"
      [] s.type = "kTable" -> "t_validate"
      [] s.type = "kIndex" -> "i_validate"
      [] OTHER -> "idle"

NoStmt == [type |-> "none", name |-> ""]

InitDatabase ==
    /\ databases = <<DefaultDatabase>>
    /\ catalogLock = 0
    /\ tables = <<>>
    /\ dbLock = 0
    /\ tableLock = <<>>
    /\ stmt \in [Threads -> DatabaseStmts]
    /\ fault = [t \in Threads |-> "none"]
    /\ pc = [t \in Threads |-> Entry(stmt[t])]
    /\ local = [t \in Threads |-> LocalInit]
    /\ result = [t \in Threads |-> FALSE]

\* Concurrent CREATE DATABASE calls.
SpecDatabase == InitDatabase /\ [][NextDatabase]_vars

----------------------------------------------------------------------------
(* The default database at the start of the CREATE TABLE and CREATE INDEX  *)
(* specifications: it holds the table that                                 *)
(*   CREATE TABLE orders (id, amount, PRIMARY KEY (id))                    *)
(* registers (OrdersStmt below; lines 125-258 give the record).            *)

OrdersColumns ==
    <<Normal("id"), Normal("amount"), Primary(Ptr(<<"id">>), TRUE)>>

OrdersStmt == CreateTable("orders", FALSE, OrdersColumns)

Orders ==
    LET id == [name |-> "id", offset |-> 0]
        amount == [name |-> "amount", offset |-> 1]
    IN  [id |-> 0, name |-> "orders",
         columns |-> <<id, amount>>,
         constraints |-> <<[name |-> "PK_0", type |-> "PRIMARY",
                            index |-> Ptr("INDEX_0"), foreign_table |-> 0,
                            columns |-> <<Ptr(id)>>, sink_columns |-> <<>>]>>,
         indexes |-> <<[name |-> "INDEX_0", unique |-> TRUE,
                        columns |-> <<Ptr(id)>>, physical_index |-> Null]>>,
         physical_table |-> Ptr([schema |-> <<"id", "amount">>])]

----------------------------------------------------------------------------
(* The CREATE TABLE calls of the model: a statement and the container      *)
(* operation that rejects on its own account ("none": no operation does).  *)

\* A valid statement with normal columns, a PRIMARY and a FOREIGN marker.
MixedColumns ==
    <<Normal("id"), Primary(Ptr(<<"id">>), TRUE), Normal("amount"),
      Foreign(Ptr(<<"amount">>), "orders", Ptr(<<"id">>))>>

ForeignColumns ==
    <<Normal("id"), Foreign(Ptr(<<"id">>), "orders", Ptr(<<"id">>))>>

\* A valid statement with two PRIMARY markers, the second over two columns
\* named against the order of their declaration, and a FOREIGN marker.
TwoKeysColumns ==
    <<Normal("id"), Primary(Ptr(<<"id">>), TRUE), Normal("amount"),
      Primary(Ptr(<<"amount", "id">>), FALSE),
      Foreign(Ptr(<<"amount">>), "orders", Ptr(<<"id">>))>>

ColumnLists ==
    { TwoKeysColumns,
      <<Primary(Ptr(<<"id">>), TRUE), Normal("id")>>,
      <<Normal("amount"), Normal("amount")>>,
      ForeignColumns,
      <<Foreign(Ptr(<<"id">>), "orders", Ptr(<<"id">>)), Normal("id")>>,
      <<Normal("id"), Foreign(Ptr(<<"id">>), "orders", Ptr(<<"nope">>))>>,
      <<Normal("id"), Foreign(Ptr(<<"id">>), "ghost", Ptr(<<"id">>))>>,
      <<Normal("id"), Foreign(Ptr(<<"id">>), "ghost", Ptr(<<>>))>>,
      <<Normal("id"), Foreign(Ptr(<<"id">>), "ghost", Null)>> }

TableCalls ==
    {<<CreateTable("lines", FALSE, c), "none">> : c \in ColumnLists}
    \cup {<<CreateTable(n, e, MixedColumns), "none">> :
              n \in {"orders", "lines"}, e \in BOOLEAN}
    \cup {<<CreateTable("lines", FALSE, MixedColumns), f>> :
              f \in {"AddConstraint", "AddIndex", "AddColumn", "AddTable"}}
    \cup {<<CreateTable("lines", FALSE, ForeignColumns), "AddConstraint">>}

NoCall == <<NoStmt, "none">>

InitTable ==
    /\ databases = <<DefaultDatabase>>
    /\ catalogLock = 0
    /\ tables = <<Orders>>
    /\ dbLock = 0
    /\ tableLock = <<0>>
    /\ \E call \in [Threads -> TableCalls \cup {NoCall}] :
           /\ \A t \in Threads : call[t] = NoCall <=> t \notin Callers
           /\ stmt = [t \in Threads |-> call[t][1]]
           /\ fault = [t \in Threads |-> call[t][2]]
    /\ pc = [t \in Threads |-> Entry(stmt[t])]
    /\ local = [t \in Threads |-> LocalInit]
    /\ result = [t \in Threads |-> FALSE]

\* Concurrent CREATE TABLE calls.
SpecTable == InitTable /\ [][NextTable]_vars

\* The steps of one thread in CREATE TABLE.
TableStep(t) ==
    \/ T_Validate(t)
    \/ T_Setup(t)
    \/ T_Construct(t)
    \/ T_Lock(t)
    \/ T_AddTableFind(t)
    \/ T_AddTablePush(t)
    \/ T_Fail(t)
    \/ T_Unlock(t)

\* Concurrent CREATE TABLE calls under fair scheduling: a thread that can
\* take a step of Execute (it has not returned and is not blocked in Lock)
\* eventually takes one.
FairSpecTable == SpecTable /\ \A t \in Threads : WF_vars(TableStep(t))

----------------------------------------------------------------------------
(* The CREATE INDEX calls of the model.                                    *)

IndexCalls ==
    { <<CreateIndex("idx_id", "orders", Ptr(<<"id">>), FALSE), "none">>,
      <<CreateIndex("idx_id", "orders", Ptr(<<"amount", "id">>), TRUE), "none">>,
      <<CreateIndex("idx_id", "orders", Ptr(<<"id", "id">>), FALSE), "none">>,
      <<CreateIndex("idx_2", "orders", Ptr(<<"amount">>), FALSE), "none">>,
      <<CreateIndex("idx_2", "orders", Ptr(<<>>), FALSE), "none">>,
      <<CreateIndex("idx_id", "orders", Null, FALSE), "none">>,
      <<CreateIndex("idx_id", "orders", Ptr(<<"id", "nope">>), FALSE), "none">>,
      <<CreateIndex("idx_id", "ghost", Ptr(<<"id">>), FALSE), "none">>,
      <<CreateIndex("INDEX_0", "orders", Ptr(<<"id">>), FALSE), "none">> }

InitIndex ==
    /\ databases = <<DefaultDatabase>>
    /\ catalogLock = 0
    /\ tables = <<Orders>>
    /\ dbLock = 0
    /\ tableLock = <<0>>
    /\ \E call \in [Threads -> IndexCalls \cup {NoCall}] :
           /\ \A t \in Threads : call[t] = NoCall <=> t \notin Callers
           /\ stmt = [t \in Threads |-> call[t][1]]
           /\ fault = [t \in Threads |-> call[t][2]]
    /\ pc = [t \in Threads |-> Entry(stmt[t])]
    /\ local = [t \in Threads |-> LocalInit]
    /\ result = [t \in Threads |-> FALSE]

\* Concurrent CREATE INDEX calls on the tables of the default database.
SpecIndex == InitIndex /\ [][NextIndex]_vars

----------------------------------------------------------------------------
(* The whole of Execute: calls of all three kinds.                         *)

Init ==
    /\ databases = <<DefaultDatabase>>
    /\ catalogLock = 0
    /\ tables = <<Orders>>
    /\ dbLock = 0
    /\ tableLock = <<0>>
    /\ \E call \in [Threads -> {<<s, "none">> : s \in DatabaseStmts}
                                \cup TableCalls \cup IndexCalls \cup {NoCall}] :
           /\ \A t \in Threads : call[t] = NoCall <=> t \notin Callers
           /\ stmt = [t \in Threads |-> call[t][1]]
           /\ fault = [t \in Threads |-> call[t][2]]
    /\ pc = [t \in Threads |-> Entry(stmt[t])]
    /\ local = [t \in Threads |-> LocalInit]
    /\ result = [t \in Threads |-> FALSE]

Next == NextDatabase \/ NextTable \/ NextIndex

Spec == Init /\ [][Next]_vars

----------------------------------------------------------------------------
(* Properties.                                                             *)

Done(t) == pc[t] = "done"

Positions(vec) == 1 .. Len(vec)

\* The identities of the tables registered in the default database.
TableIds == {tables[k].id : k \in Positions(tables)}

TableCallers(n) ==
    {t \in Threads : stmt[t].type = "kTable" /\ stmt[t].name = n}

\* The registered tables are as they were: none removed, replaced or changed.
TablesKept ==
    /\ Len(tables') >= Len(tables)
    /\ \A k \in Positions(tables) : tables'[k] = tables[k]

\* The table set changes only by the append of the stepping thread's own new
\* Table at the end of AddTable.
C1_OnlyInsertChanges ==
    tables' # tables =>
        \E t \in Threads :
            /\ pc[t] = "t_push" /\ pc'[t] = "t_unlock"
            /\ local[t].table.id = t
            /\ tables' = Append(tables, local[t].table)

\* A call that has returned false has no Table of its own in the table set;
\* a call that has appended one is about to return true.
C1_FailedCallAddedNothing ==
    \A t \in Threads :
        /\ (stmt[t].type = "kTable" /\ Done(t) /\ ~result[t]) => t \notin TableIds
        /\ pc[t] = "t_unlock" => t \in TableIds

\* C1 (atomicity of CREATE TABLE).  The table set of the default database
\* changes only by the append of the calling thread's own new Table at the
\* end of AddTable, after which that call returns true; so a CREATE TABLE
\* call that returns false, wherever it fails, has left the table set as
\* the other calls made it: nothing removed, nothing replaced, nothing of
\* its own added.
C1_Atomicity ==
    /\ [][C1_OnlyInsertChanges /\ TablesKept]_vars
    /\ []C1_FailedCallAddedNothing

\* A call has failed at the final AddTable, having built its whole Table,
\* while the table of another call is registered under the same name.
C1_Witness ==
    \E t \in Threads :
        /\ stmt[t].type = "kTable" /\ Done(t) /\ ~result[t]
        /\ fault[t] = "none"
        /\ local[t].table.physical_table # Null
        /\ local[t].deleted = <<"table">>
        /\ \E k \in Positions(tables) :
               tables[k].name = stmt[t].name /\ tables[k].id \notin {0, t}

----------------------------------------------------------------------------

DatabaseCallers(n) ==
    {t \in Threads : stmt[t].type = "kDatabase" /\ stmt[t].name = n}

Registered(n) == {k \in Positions(databases) : databases[k].name = n}

\* C2 (uniqueness of CREATE DATABASE).  When two or more threads call CREATE
\* DATABASE for one name that is not registered at the start, then once they
\* have all returned exactly one of them has returned true and the registry
\* holds exactly one Database of that name.
C2_UniqueDatabase ==
    \A n \in DatabaseNames \ {DEFAULT_DB_NAME} :
        (/\ Cardinality(DatabaseCallers(n)) >= 2
         /\ \A t \in DatabaseCallers(n) : Done(t))
        => /\ Cardinality({t \in DatabaseCallers(n) : result[t]}) = 1
           /\ Cardinality(Registered(n)) = 1

----------------------------------------------------------------------------

\* A call is valid when nothing rejects on its own account, pass 1 accepts
\* the statement and pass 2 dereferences no null list.
ValidTableCall(t) ==
    /\ stmt[t].type = "kTable"
    /\ fault[t] = "none"
    /\ Validate(stmt[t].columns, 1, <<>>).ok
    /\ \A k \in Positions(stmt[t].columns) : ~DereferencesNull(stmt[t].columns[k])

TablesNamed(n) == {k \in Positions(tables) : tables[k].name = n}

Successes(callers) == {t \in callers : Done(t) /\ result[t]}

\* The table names of the CREATE TABLE calls.
TableNames == {call[1].name : call \in TableCalls}

C3_AtMostOne ==
    \A n \in TableNames :
        /\ Cardinality(TablesNamed(n)) <= 1
        /\ Cardinality(Successes(TableCallers(n))) <= 1
        /\ n = Orders.name => Successes(TableCallers(n)) = {}
        /\ (/\ n # Orders.name
            /\ \E t \in TableCallers(n) : ValidTableCall(t)
            /\ \A t \in TableCallers(n) : ValidTableCall(t) => Done(t))
           => Cardinality(Successes(TableCallers(n))) = 1

\* C3 (uniqueness of CREATE TABLE).  Of the calls that use one table name
\* at most one returns true, none when the name is registered at the start,
\* and exactly one once all the valid calls for a new name have returned;
\* the database never holds two tables of one name, and a registered table
\* is never removed, replaced or changed; the existence-guard flag of the
\* calls makes no difference.
C3_UniqueTable ==
    /\ []C3_AtMostOne
    /\ [][TablesKept]_vars

\* Two valid calls for the same new name have returned, one true and one
\* false, the losing one with the existence-guard flag set.
C3_Witness ==
    \E t, u \in Threads :
        /\ t # u /\ stmt[t].name = stmt[u].name
        /\ ValidTableCall(t) /\ ValidTableCall(u)
        /\ Done(t) /\ Done(u) /\ result[t] /\ ~result[u]
        /\ stmt[u].if_not_exists
        /\ Cardinality(TablesNamed(stmt[t].name)) = 1

----------------------------------------------------------------------------

\* C4 (CREATE DATABASE checks and inserts in one critical section).  A
\* thread that has found the name absent from the registry and has not yet
\* inserted its Database holds the registry lock.
C4_CheckAndInsertLocked ==
    \A t \in Threads :
        pc[t] \in {"d_lock", "d_add", "d_push"} => catalogLock = t

----------------------------------------------------------------------------

\* C5 as stated.  The existence check of the target name (GetTable, line
\* 116) and the insertion by AddTable are both steps of a thread that holds
\* the database lock, and a thread in its validation or construction pass
\* does not hold it.
C5_GuardAndInsertLocked ==
    /\ [][\A t \in Threads :
             (pc[t] \in {"t_setup", "t_push"} /\ pc'[t] # pc[t]) => dbLock = t]_vars
    /\ [](\A t \in Threads :
             pc[t] \in {"t_validate", "t_construct"} => dbLock # t)

\* C5, amended.  The insertion of the new Table by AddTable, whose own
\* search for the name is the final existence check, runs under the
\* database lock: the table set changes only in a step of the thread that
\* holds the lock, and the thread holds it from Lock to Unlock.  The
\* GetTable existence guard of line 116, the two passes and the
\* construction run while the thread does not hold the database lock.
C5_InsertLocked ==
    \A t \in Threads :
        /\ pc[t] \in {"t_add", "t_push", "t_fail", "t_unlock"} => dbLock = t
        /\ pc[t] \in {"t_validate", "t_setup", "t_construct", "t_lock"}
               => dbLock # t

\* One thread is inside AddTable, holding the lock, while another is in its
\* construction pass, past the existence guard, without it.
C5_Witness ==
    \E t, u \in Threads :
        /\ pc[t] = "t_push" /\ dbLock = t
        /\ pc[u] = "t_construct" /\ local[u].table.id = u

----------------------------------------------------------------------------

\* C6 (a rejected CREATE DATABASE changes nothing).  The step in which a
\* CREATE DATABASE call for a registered name returns false leaves the
\* registered databases and the registry lock, held or free, as they were.
C6_RejectChangesNothing ==
    [][\A t \in Threads :
           (pc[t] = "d_exists" /\ pc'[t] = "done")
           => /\ ~result'[t]
              /\ databases' = databases
              /\ catalogLock' = catalogLock]_vars

----------------------------------------------------------------------------

IndexCallers(table_name, n) ==
    {t \in Threads : /\ stmt[t].type = "kIndex"
                     /\ stmt[t].table_name = table_name
                     /\ stmt[t].name = n}

\* C7 (true means the physical index is there).  After a CREATE INDEX call
\* has returned true, the Index it registered on the target table has a
\* physical index attached.
C7_PhysicalIndexAttached ==
    \A t \in Threads :
        (stmt[t].type = "kIndex" /\ Done(t) /\ result[t])
        => tables[local[t].target].indexes[local[t].index_at].physical_index
               # Null

----------------------------------------------------------------------------

\* The preconditions of CREATE INDEX: the target table exists, the key list
\* is there and is not empty, every key names a column of the table.
IndexPreconditions(s) ==
    /\ GetTable(s.table_name) # 0
    /\ s.index_attrs # Null
    /\ Len(Deref(s.index_attrs)) > 0
    /\ AttrsInTable(tables[GetTable(s.table_name)], Deref(s.index_attrs))

\* C8 (CREATE INDEX succeeds only under its preconditions).  A CREATE INDEX
\* call that has returned with its preconditions failing (the key list with
\* zero entries included) has returned false and has registered no Index.
C8_PreconditionsEnforced ==
    \A t \in Threads :
        (stmt[t].type = "kIndex" /\ Done(t) /\ ~IndexPreconditions(stmt[t]))
        => /\ ~result[t]
           /\ local[t].index_at = 0

----------------------------------------------------------------------------

IndexesNamed(k, n) ==
    {j \in Positions(tables[k].indexes) : tables[k].indexes[j].name = n}

\* What the code requires of a CREATE INDEX call (lines 325-350).
ValidIndexCall(t) ==
    /\ stmt[t].type = "kIndex"
    /\ GetTable(stmt[t].table_name) # 0
    /\ stmt[t].index_attrs # Null
    /\ AttrsInTable(tables[GetTable(stmt[t].table_name)],
                    Deref(stmt[t].index_attrs))

IndexNames == {call[1].name : call \in IndexCalls}

C9_Retrievable ==
    \A t \in Threads :
        (stmt[t].type = "kIndex" /\ Done(t) /\ result[t])
        => LET table == tables[GetTable(stmt[t].table_name)]
               at == Lookup(table.indexes, stmt[t].name)
           IN  /\ at # 0
               /\ at = local[t].index_at
               /\ table.indexes[at] = local[t].index

C9_ExactlyOne ==
    \A n \in IndexNames :
        LET callers == IndexCallers(Orders.name, n)
            fresh == Lookup(Orders.indexes, n) = 0
        IN  /\ Cardinality(IndexesNamed(1, n)) <= 1
            /\ Cardinality(Successes(callers)) <= 1
            /\ ~fresh => Successes(callers) = {}
            /\ (/\ fresh
                /\ \E t \in callers : ValidIndexCall(t)
                /\ \A t \in callers : ValidIndexCall(t) => Done(t))
               => Cardinality(Successes(callers)) = 1

C9_InsertUnderTableLock ==
    \A k \in Positions(tables) :
        tables'[k].indexes # tables[k].indexes
        => \E t \in Threads :
               /\ pc[t] = "i_push" /\ local[t].target = k
               /\ tableLock[k] = t
               /\ tables'[k].indexes = Append(tables[k].indexes, local[t].index)

\* C9 (CREATE INDEX registers by name, once, under the table lock).  An
\* Index registered by a call that returned true is found in the target
\* table's indexes by the statement's name; of the calls that use one index
\* name on one table at most one returns true, none when the table holds
\* that name at the start, and exactly one once all the valid calls for a
\* new name have returned; the indexes of a table change only by an append
\* made by the thread that holds the table's lock.
C9_IndexRegistration ==
    /\ [](C9_Retrievable /\ C9_ExactlyOne)
    /\ [][C9_InsertUnderTableLock]_vars

\* Two valid calls for the same new index name on the same table have
\* returned, one true and one false, and the index is found by its name.
C9_Witness ==
    \E t, u \in Threads :
        /\ t # u /\ ValidIndexCall(t) /\ ValidIndexCall(u)
        /\ stmt[t].name = stmt[u].name /\ stmt[t].table_name = stmt[u].table_name
        /\ Done(t) /\ Done(u) /\ result[t] /\ ~result[u]
        /\ Lookup(tables[local[t].target].indexes, stmt[t].name) = local[t].index_at

----------------------------------------------------------------------------

\* The keys a marker names in its own table: the keys of a PRIMARY marker,
\* the source keys of a FOREIGN marker.
MarkerKeys(col) ==
    CASE col.type = "PRIMARY" /\ col.primary_key # Null ->
             Range(Deref(col.primary_key))
      [] col.type = "FOREIGN" /\ col.foreign_key_source # Null ->
             Range(Deref(col.foreign_key_source))
      [] OTHER -> {}

DeclaredBefore(cols, i, key) ==
    \E j \in 1 .. i - 1 : cols[j].type = "NORMAL" /\ cols[j].name = key

DeclaredAfter(cols, i, key) ==
    \E j \in i + 1 .. Len(cols) : cols[j].type = "NORMAL" /\ cols[j].name = key

\* Some marker names a column that no normal column before it declares.
ForwardReference(cols) ==
    \E i \in Positions(cols) :
        \E key \in MarkerKeys(cols[i]) : ~DeclaredBefore(cols, i, key)

\* C10 (forward references are rejected).  A CREATE TABLE call whose
\* statement has a PRIMARY marker, or the source list of a FOREIGN marker,
\* naming a column that is not declared by a normal column earlier in the
\* list never gets past pass 1: it constructs no Table, registers none and
\* returns false, also when the column is declared later in the list.
C10_ForwardReferenceRejected ==
    \A t \in Threads :
        (stmt[t].type = "kTable" /\ ForwardReference(stmt[t].columns))
        => /\ pc[t] \in {"t_validate", "done"}
           /\ Done(t) => ~result[t]
           /\ local[t].table = NoTable
           /\ t \notin TableIds

\* A call has returned whose PRIMARY marker names a column declared only
\* later in the list, and one whose FOREIGN marker does.
C10_Witness ==
    \E t, u \in Threads :
        /\ Done(t) /\ Done(u)
        /\ \E i \in Positions(stmt[t].columns) :
               /\ stmt[t].columns[i].type = "PRIMARY"
               /\ \E key \in MarkerKeys(stmt[t].columns[i]) :
                      /\ ~DeclaredBefore(stmt[t].columns, i, key)
                      /\ DeclaredAfter(stmt[t].columns, i, key)
        /\ \E i \in Positions(stmt[u].columns) :
               /\ stmt[u].columns[i].type = "FOREIGN"
               /\ \E key \in MarkerKeys(stmt[u].columns[i]) :
                      /\ ~DeclaredBefore(stmt[u].columns, i, key)
                      /\ DeclaredAfter(stmt[u].columns, i, key)

----------------------------------------------------------------------------

Markers(cols, type) == {i \in Positions(cols) : cols[i].type = type}

\* The sink side of a FOREIGN marker resolves: the sink list is there, the
\* sink table is in the default database and has every sink column.
SinkResolved(col) ==
    /\ col.foreign_key_sink # Null
    /\ GetTable(col.name) # 0
    /\ \A key \in Range(Deref(col.foreign_key_sink)) :
           GetColumn(tables[GetTable(col.name)], key) # Null

\* C11 (foreign-key resolution).  A CREATE TABLE call whose statement has a
\* FOREIGN marker whose sink side does not resolve (the sink table missing
\* with an empty or absent sink list included) is rejected: it registers no
\* Table, it returns, and it returns false.
C11_ForeignKeyRejected ==
    \A t \in Threads :
        (/\ stmt[t].type = "kTable"
         /\ \E i \in Markers(stmt[t].columns, "FOREIGN") :
                ~SinkResolved(stmt[t].columns[i]))
        => /\ t \notin TableIds
           /\ pc[t] # "fault"
           /\ Done(t) => ~result[t]

----------------------------------------------------------------------------

IsNormal(col) == col.type = "NORMAL"

\* The names of the normal columns of a column list, in declaration order.
NormalNames(cols) ==
    LET normal == SelectSeq(cols, IsNormal)
    IN  [i \in Positions(normal) |-> normal[i].name]

\* The column list of the statement that made a registered table.
StatementOf(table) ==
    IF table.id = 0 THEN OrdersColumns ELSE stmt[table.id].columns

\* C12 (offset density).  In every table registered in the default database
\* the columns are the normal columns of its statement in declaration order
\* and the i-th of them (from zero) has offset i, so the offsets of a table
\* with N normal columns are 0 .. N-1; the PRIMARY and FOREIGN markers among
\* them take no offset.
C12_OffsetDensity ==
    \A k \in Positions(tables) :
        LET columns == tables[k].columns
        IN  /\ [i \in Positions(columns) |-> columns[i].name]
                   = NormalNames(StatementOf(tables[k]))
            /\ \A i \in Positions(columns) : columns[i].offset = i - 1
            /\ {columns[i].offset : i \in Positions(columns)}
                   = 0 .. Len(columns) - 1

\* A call has returned true and its table is registered, made from a
\* statement with two normal columns and a marker between them.
C12_Witness ==
    \E t \in Threads :
        /\ stmt[t].type = "kTable" /\ Done(t) /\ result[t]
        /\ \E k \in Positions(tables) :
               tables[k].id = t /\ Len(tables[k].columns) = 2
        /\ \E i, j, m \in Positions(stmt[t].columns) :
               /\ i < j /\ j < m
               /\ IsNormal(stmt[t].columns[i])
               /\ ~IsNormal(stmt[t].columns[j])
               /\ IsNormal(stmt[t].columns[m])

----------------------------------------------------------------------------

\* The names of a sequence of named objects are pairwise distinct.
DistinctNames(vec) ==
    \A i, j \in Positions(vec) : vec[i].name = vec[j].name => i = j

\* Two normal columns of a column list share a name.
DuplicateColumn(cols) ==
    \E i, j \in Markers(cols, "NORMAL") : i # j /\ cols[i].name = cols[j].name

\* C13 (column-name distinctness).  The column names of every table
\* registered in the default database, and of every Table under
\* construction, are pairwise distinct; a CREATE TABLE call whose statement
\* has two normal columns of one name never gets past pass 1: it constructs
\* no Table and no Column, registers none and returns false.
C13_DistinctColumns ==
    /\ \A k \in Positions(tables) : DistinctNames(tables[k].columns)
    /\ \A t \in Threads :
           /\ DistinctNames(local[t].table.columns)
           /\ (stmt[t].type = "kTable" /\ DuplicateColumn(stmt[t].columns))
              => /\ pc[t] \in {"t_validate", "done"}
                 /\ Done(t) => ~result[t]
                 /\ local[t].table = NoTable
                 /\ local[t].offset = 0
                 /\ t \notin TableIds

\* A call whose statement has two normal columns of one name has returned,
\* and so has a call that registered a table with two columns.
C13_Witness ==
    \E t, u \in Threads :
        /\ stmt[t].type = "kTable" /\ DuplicateColumn(stmt[t].columns)
        /\ Done(t) /\ ~result[t]
        /\ Done(u) /\ result[u]
        /\ \E k \in Positions(tables) :
               tables[k].id = u /\ Len(tables[k].columns) = 2

----------------------------------------------------------------------------

\* The Column of a table that has the given name.
ColumnNamed(table, name) ==
    CHOOSE column \in Range(table.columns) : column.name = name

\* The call of thread t has resolved its keys and built its Index.
KeysResolved(t) ==
    /\ stmt[t].type = "kIndex"
    /\ \/ pc[t] \in {"i_lock", "i_add", "i_push", "i_fail", "i_unlock", "i_set"}
       \/ Done(t) /\ local[t].target # 0

\* C14 (key projection order).  Once a CREATE INDEX call has resolved its
\* keys, the key offsets, the key Columns of the Index and the columns of
\* the projected key schema each have one entry per key attribute of the
\* statement, in the declared order: the k-th is the offset, the Column and
\* the schema column of the k-th attribute name, repeated names included;
\* and the Index registered by a call that returned true has these Columns.
C14_KeyOrder ==
    \A t \in Threads :
        KeysResolved(t) =>
            LET attrs == Deref(stmt[t].index_attrs)
                table == tables[local[t].target]
                l == local[t]
            IN  /\ Len(l.key_attrs) = Len(attrs)
                /\ Len(l.index.columns) = Len(attrs)
                /\ Len(l.key_schema) = Len(attrs)
                /\ \A k \in Positions(attrs) :
                       /\ l.key_attrs[k] = ColumnNamed(table, attrs[k]).offset
                       /\ l.index.columns[k] = Ptr(ColumnNamed(table, attrs[k]))
                       /\ l.key_schema[k] = attrs[k]
                /\ (Done(t) /\ result[t])
                   => table.indexes[l.index_at].columns = l.index.columns

\* A call whose keys are not in the order of their offsets has returned
\* true, and a call that names one column twice has resolved its keys.
C14_Witness ==
    \E t, u \in Threads :
        /\ KeysResolved(t) /\ Done(t) /\ result[t]
        /\ Len(local[t].key_attrs) = 2
        /\ local[t].key_attrs[1] > local[t].key_attrs[2]
        /\ KeysResolved(u)
        /\ Len(local[u].key_attrs) = 2
        /\ local[u].key_attrs[1] = local[u].key_attrs[2]

----------------------------------------------------------------------------

\* A registered table carries what its statement asks for: the normal
\* columns, a Constraint per marker, an Index per PRIMARY marker, and the
\* physical table over the normal columns.
TableComplete(table) ==
    LET cols == StatementOf(table)
    IN  /\ [i \in Positions(table.columns) |-> table.columns[i].name]
               = NormalNames(cols)
        /\ Len(table.constraints)
               = Cardinality(Markers(cols, "PRIMARY") \cup Markers(cols, "FOREIGN"))
        /\ Len(table.indexes) >= Cardinality(Markers(cols, "PRIMARY"))
        /\ table.physical_table = Ptr([schema |-> NormalNames(cols)])

\* The step of thread t that calls SetPhysicalIndex (line 389).
SetsPhysicalIndex(t) == pc[t] = "i_set" /\ pc'[t] = "done"

\* The Index built by thread t is registered on its target table.
IndexVisible(t) ==
    /\ local[t].index_at # 0
    /\ tables[local[t].target].indexes[local[t].index_at].name
           = local[t].index.name

\* C15 (visibility).  Every table that GetTable can return carries all the
\* Columns, Constraints and Indexes of its statement and has its physical
\* table attached; and the call that made an Index does not write to it
\* once it is registered on its table.
C15_Visibility ==
    /\ [](\A k \in Positions(tables) : TableComplete(tables[k]))
    /\ [][\A t \in Threads : SetsPhysicalIndex(t) => ~IndexVisible(t)]_vars

----------------------------------------------------------------------------

\* The locks thread t holds.
LocksHeld(t) ==
    (IF catalogLock = t THEN {<<"catalog", 0>>} ELSE {})
    \cup (IF dbLock = t THEN {<<"database", 0>>} ELSE {})
    \cup {<<"table", k>> : k \in {j \in Positions(tableLock) : tableLock[j] = t}}

\* C16 (lock discipline).  A step of a thread that writes to the registry,
\* to the default database or to a registered table or one of its indexes
\* is taken while the thread holds the lock of that container, and a thread
\* in validation or construction holds no lock.
C16_LockDiscipline ==
    /\ [][\A t \in Threads :
             /\ (pc[t] = "d_push" /\ pc'[t] # pc[t]) => catalogLock = t
             /\ (pc[t] = "t_push" /\ pc'[t] # pc[t]) => dbLock = t
             /\ (pc[t] = "i_push" /\ pc'[t] # pc[t])
                    => tableLock[local[t].target] = t
             /\ SetsPhysicalIndex(t) => tableLock[local[t].target] = t]_vars
    /\ [](\A t \in Threads :
             pc[t] \in {"d_get", "t_validate", "t_setup", "t_construct",
                        "i_validate"} => LocksHeld(t) = {})

----------------------------------------------------------------------------

\* How often x occurs in a sequence.
Count(s, x) == Cardinality({k \in Positions(s) : s[k] = x})

\* What Table::~Table() releases with the Table: the Columns, Constraints
\* and Indexes the Table accepted and the physical table with its Schema.
OwnedBy(table) ==
    {"column " \o table.columns[k].name : k \in Positions(table.columns)}
    \cup {"constraint " \o table.constraints[k].name :
              k \in Positions(table.constraints)}
    \cup {"index " \o table.indexes[k].name : k \in Positions(table.indexes)}
    \cup (IF table.physical_table = Null THEN {}
          ELSE {"schema", "physical_table"})

\* How often the object x of a call with locals l is released: by a delete
\* statement that names it, and with the deleted Table that owns it.
Releases(l, x) ==
    Count(l.deleted, x)
    + (IF Count(l.deleted, "table") > 0 /\ x \in OwnedBy(l.table) THEN 1 ELSE 0)

\* The position of the first occurrence of x in a sequence.
IndexOf(s, x) == CHOOSE k \in Positions(s) :
                     s[k] = x /\ \A j \in 1 .. k - 1 : s[j] # x

\* C17 (rollback releases everything exactly once).  When a CREATE TABLE
\* call that has constructed its Table returns false, every object it has
\* constructed is released exactly once, by a delete statement of the call
\* or with the Table that owns it, and the delete statements come in the
\* reverse of the order of construction.
C17_RollbackReleasesOnce ==
    \A t \in Threads :
        (stmt[t].type = "kTable" /\ Done(t) /\ ~result[t])
        => LET l == local[t]
           IN  /\ \A x \in Range(l.created) : Releases(l, x) = 1
               /\ \A i, j \in Positions(l.deleted) :
                      i < j => IndexOf(l.created, l.deleted[i])
                                   > IndexOf(l.created, l.deleted[j])

----------------------------------------------------------------------------

IsMarker(col) == col.type \in {"PRIMARY", "FOREIGN"}

IsPrimary(col) == col.type = "PRIMARY"

\* The Column pointers that the names of a key list stand for in a table.
KeyColumns(table, keys) ==
    [k \in Positions(keys) |-> Ptr(ColumnNamed(table, keys[k]))]

\* The Constraints and Indexes of a table are those of the markers of the
\* column list cols: the n-th marker gives the n-th Constraint, the n-th
\* PRIMARY marker the n-th Index.
MarkersRealised(table, cols) ==
    LET markers == SelectSeq(cols, IsMarker)
        primaries == SelectSeq(cols, IsPrimary)
    IN  /\ Len(table.constraints) = Len(markers)
        /\ Len(table.indexes) = Len(primaries)
        /\ \A n \in Positions(markers) :
               LET constraint == table.constraints[n]
               IN  /\ constraint.type = markers[n].type
                   /\ constraint.name
                          = (IF IsPrimary(markers[n]) THEN "PK_" ELSE "FK_")
                                \o ToString(n - 1)
                   /\ ~IsPrimary(markers[n]) => constraint.index = Null
        /\ \A n \in Positions(primaries) :
               LET index == table.indexes[n]
                   keys == Deref(primaries[n].primary_key)
               IN  /\ index.name = "INDEX_" \o ToString(n - 1)
                   /\ \A k \in Positions(keys) :
                          keys[k] \in {c.name : c \in Range(table.columns)}
                   /\ index.columns = KeyColumns(table, keys)
                   /\ index.unique = primaries[n].unique
                   /\ \E m \in Positions(table.constraints) :
                          /\ table.constraints[m].type = "PRIMARY"
                          /\ table.constraints[m].index = Ptr(index.name)
                          /\ table.constraints[m].columns = index.columns
                   /\ Cardinality({m \in Positions(table.constraints) :
                          table.constraints[m].index = Ptr(index.name)}) = 1
        /\ DistinctNames(table.constraints)
        /\ DistinctNames(table.indexes)

\* C18 (constraints and indexes of the markers).  The table registered by a
\* CREATE TABLE call has one Primary Constraint and one Index per PRIMARY
\* marker (the Index over the marker's columns in their order, each a
\* Column of the table, with the marker's unique flag), one Foreign
\* Constraint and no Index per FOREIGN marker, and constraint names and
\* index names that are pairwise distinct; and a call in which no container
\* operation rejects on its own account never rolls a Constraint or an
\* Index back, so no generated name collides.
C18_MarkersRealised ==
    /\ \A k \in Positions(tables) :
           MarkersRealised(tables[k], StatementOf(tables[k]))
    /\ \A t \in Threads :
           (stmt[t].type = "kTable" /\ fault[t] = "none")
           => /\ local[t].deleted \in {<<>>, <<"table">>}
              /\ DistinctNames(local[t].table.constraints)
              /\ DistinctNames(local[t].table.indexes)

\* A call has returned true whose statement has two PRIMARY markers and a
\* FOREIGN marker, and its table is registered with three Constraints and
\* two Indexes.
C18_Witness ==
    \E t \in Threads :
        /\ stmt[t].type = "kTable" /\ Done(t) /\ result[t]
        /\ Cardinality(Markers(stmt[t].columns, "PRIMARY")) = 2
        /\ Cardinality(Markers(stmt[t].columns, "FOREIGN")) = 1
        /\ \E k \in Positions(tables) :
               /\ tables[k].id = t
               /\ Len(tables[k].constraints) = 3
               /\ Len(tables[k].indexes) = 2

----------------------------------------------------------------------------

\* Thread t is between Lock (line 297) and Unlock (lines 303, 307).
InRegistrySection(t) == pc[t] \in {"d_add", "d_push", "d_fail", "d_unlock"}

\* Thread t is about to call Unlock on the registry (lines 289, 303, 307).
AboutToUnlock(t) == pc[t] \in {"d_exists", "d_fail", "d_unlock"}

\* C19 (mutual exclusion of the registry lock).  A thread that is about to
\* call Unlock on the registry holds its lock; at most one thread is inside
\* the Lock..Unlock section around AddDatabase, and that thread holds the
\* lock until its own Unlock.
C19_RegistryMutex ==
    /\ \A t \in Threads : AboutToUnlock(t) => catalogLock = t
    /\ Cardinality({t \in Threads : InRegistrySection(t)}) <= 1
    /\ \A t \in Threads : InRegistrySection(t) => catalogLock = t

----------------------------------------------------------------------------

\* The call of thread t has returned (or the thread makes no call).
Returned(t) == pc[t] \in {"done", "idle"}

\* C20 (lock balance and termination).  A thread whose call has returned
\* holds none of the registry, database and table locks; no thread holds
\* two of them at once; and under fair scheduling every call of Execute
\* eventually returns.
C20_LockBalanceAndTermination ==
    /\ [](\A t \in Threads : Returned(t) => LocksHeld(t) = {})
    /\ [](\A t \in Threads : Cardinality(LocksHeld(t)) <= 1)
    /\ \A t \in Threads : <>Returned(t)

====
